---- MODULE Spec2Model ----
(***************************************************************************)
(* redis-map (src/src/index.js): a Map mirrored in every process, backed   *)
(* by one Redis string holding the whole map as JSON, kept in step by      *)
(* PUBLISH/SUBSCRIBE on a channel named like the map, and with per-key     *)
(* TTLs realised by marker keys `rmap-<name>-ex=<key>` whose expiry is     *)
(* observed through keyspace notifications.                                *)
(*                                                                         *)
(* Strings that the code builds or parses (marker names, keys, collection  *)
(* names) are sequences of one-character strings. JavaScript values are    *)
(* written as their source text ("0", "1", "null", "undefined").           *)
(***************************************************************************)
EXTENDS Integers, Sequences, FiniteSets, TLC

VARIABLES
    name,        \* [Procs -> string]  RedisMap.name: the store key and channel of the collection
    redisOpen,   \* [Procs -> BOOLEAN]  #redis.isOpen of the process's command connection
    pubsubOpen,  \* [Procs -> BOOLEAN]  #pubsub.isOpen of the process's notification connection
    exists,      \* [Procs -> BOOLEAN]  a RedisMap has been constructed in the process
    subscribed,  \* [Procs -> BOOLEAN]  its two subscriptions are established
    data,        \* [Procs -> Obj]      RedisMap.data
    cmdq,        \* [Procs -> Seq(Cmd)] commands sent on #redis, not yet executed by the store
    replyq,      \* [Procs -> Seq]      GET replies on their way back to sync()
    inbox,       \* [Procs -> Seq(Ev)]  events on #pubsub, not yet handled by the callbacks
    snapshot,    \* <<>> or <<text>>    the store's string under the collection name
    markers,     \* the marker keys alive in the store, one record per name
    sent,        \* the Change Messages published so far (history)
    feed,        \* [Procs -> Seq(text)] per-origin message streams (ConvSpec only)
    seen,        \* [Procs -> set of <<origin, index>>] messages of feed handled (ConvSpec only)
    budget,      \* number of API calls the environment may still make
    last         \* the step taken last (history)

vars == <<name, redisOpen, pubsubOpen, exists, subscribed, data, cmdq, replyq, inbox,
          snapshot, markers, sent, feed, seen, budget, last>>

----------------------------------------------------------------------------
(* Bounds and input domains *)

MaxOps == 2
MaxMsgs == 3
MaxLifeOps == 1
MaxWarmOps == 1
MaxSoloOps == 2
MaxIsoOps == 1
MaxLateOps == 2
MaxLapseOps == 2

Procs == {"A", "B"}

KeyA == <<"a">>
KeyAB == <<"a", "=", "b">>
Keys == {KeyA, KeyAB}

Values == {"0", "1"}
Expires == {"undefined", "2"}

NameM == <<"m">>
NameMExt == <<"m", "-", "e", "x", "t">>
NameN == <<"n">>
NameNEq == <<"n", "=", "1">>
Names == {NameM, NameMExt, NameN, NameNEq}

Absent == "<absent>"
Null == "null"
Cells == Values \cup {Absent}
Obj == [Keys -> Cells]
Empty == [k \in Keys |-> Absent]

----------------------------------------------------------------------------
(* JavaScript helpers *)

Truthy(v) == v \notin {"0", "", "false", "null", "undefined", "NaN"}

\* the EX option of SET, in seconds
Seconds(e) == IF e = "2" THEN 2 ELSE 0

Undefined == <<"u", "n", "d", "e", "f", "i", "n", "e", "d">>

StartsWith(s, pre) == Len(s) >= Len(pre) /\ SubSeq(s, 1, Len(pre)) = pre

Min(S) == CHOOSE x \in S : \A y \in S : x <= y

\* s.split("=")[1]
SplitEq1(s) ==
    LET eqs == {i \in 1..Len(s) : s[i] = "="}
    IN  IF eqs = {} THEN Undefined
        ELSE LET i1 == Min(eqs)
                 later == {i \in eqs : i > i1}
                 i2 == IF later = {} THEN Len(s) + 1 ELSE Min(later)
             IN  SubSeq(s, i1 + 1, i2 - 1)

\* JSON.stringify(this.data): the own properties as key/value pairs
JSONStringify(d) == {<<k, d[k]>> : k \in {x \in Keys : d[x] # Absent}}

\* JSON.parse of a snapshot text
JSONParse(t) ==
    [k \in Keys |-> IF \E pr \in t : pr[1] = k
                    THEN (CHOOSE pr \in t : pr[1] = k)[2]
                    ELSE Absent]

\* JSON.stringify of the three Change Messages
MsgSet(k, v) == <<1, k, v>>
MsgDelete(k) == <<2, k>>
MsgClear == <<3>>

\* const { a: action, key, value } = JSON.parse(message)
MsgParse(t) ==
    [action |-> t[1],
     key |-> IF Len(t) >= 2 THEN t[2] ELSE Undefined,
     value |-> IF Len(t) >= 3 THEN t[3] ELSE "undefined"]

----------------------------------------------------------------------------
(* RedisMap: the synchronous part *)

Name(p) == name[p]

Get(d, k) == IF k \in Keys /\ d[k] # Absent /\ Truthy(d[k]) THEN d[k] ELSE Null

Has(d, k) == k \in Keys /\ d[k] # Absent

Entries(d) == {<<k, d[k]>> : k \in {x \in Keys : d[x] # Absent}}

Put(d, k, v) == [d EXCEPT ![k] = v]

Del(d, k) == [x \in Keys |-> IF x = k THEN Absent ELSE d[x]]

MarkerPrefix(n) == <<"r", "m", "a", "p", "-">> \o n \o <<"-", "e", "x">>

MarkerName(n, k) == MarkerPrefix(n) \o <<"=">> \o k

\* the pSubscribe("__keyevent@0__:expired") callback
OnExpired(n, d, expired) ==
    IF StartsWith(expired, MarkerPrefix(n)) THEN Del(d, SplitEq1(expired)) ELSE d

\* Variant: case 3 forgotten, a clear message is ignored
OnMessageNoClear(d, text) ==
    LET m == MsgParse(text)
    IN  CASE m.action = 1 -> Put(d, m.key, m.value)
          [] m.action = 2 -> Del(d, m.key)
          [] OTHER -> d

\* Variant: case 2 written `if (key in this.data) { delete this.data[key]; break; }`,
\* so that a delete of an absent key falls through into case 3
OnMessageFallThrough(d, text) ==
    LET m == MsgParse(text)
    IN  CASE m.action = 1 -> Put(d, m.key, m.value)
          [] m.action = 2 -> IF Has(d, m.key) THEN Del(d, m.key) ELSE Empty
          [] m.action = 3 -> Empty
          [] OTHER -> d

\* the subscribe(this.name) callback
OnMessage(d, text) ==
    LET m == MsgParse(text)
    IN  CASE m.action = 1 -> Put(d, m.key, m.value)
          [] m.action = 2 -> Del(d, m.key)
          [] m.action = 3 -> Empty
          [] OTHER -> d

----------------------------------------------------------------------------
(* Commands, events, history *)

CmdGet == [op |-> "get", del |-> FALSE, write |-> {}, msg |-> <<>>, marker |-> <<>>]

CmdMulti(isDel, text, msg, marker) ==
    [op |-> "multi", del |-> isDel, write |-> text, msg |-> msg, marker |-> marker]

EvMsg(text) == [t |-> "msg", payload |-> text]
\* The marker key that `pipeline.set(marker, 0, { EX: expire })` writes. name and left
\* are what the store holds (the key and its remaining time to live); the rest is
\* history: key, val and ttl are those of the call that wrote it, age the seconds
\* since, over the time that the marker it replaced had left (-1: it replaced none),
\* cut whether the store has executed a delete of the key since.
Marker(n, k, v, e) ==
    [name |-> MarkerName(n, k), key |-> k, val |-> v, ttl |-> Seconds(e),
     left |-> Seconds(e), age |-> 0, over |-> -1, cut |-> FALSE]

\* Variant: `{ EX: expire, NX: true }`, a marker that is alive is left as it is
StoreSetNX(ms, new) ==
    ms \cup {new[i] : i \in {j \in 1..Len(new) : \A m \in ms : m.name # new[j].name}}

\* SET of a key of the store: the key names one entry, a second SET replaces the
\* first with its time to live
StoreSet(ms, new) ==
    {m \in ms : \A i \in 1..Len(new) : m.name # new[i].name}
    \cup {[new[i] EXCEPT !.over = IF \E m \in ms : m.name = new[i].name
                                  THEN (CHOOSE m \in ms : m.name = new[i].name).left
                                  ELSE -1] : i \in 1..Len(new)}

\* history only: the markers of the key of a delete message are noted as cut
\* Variant: delete also removes the marker of the key
NotedDel(ms, msg) ==
    {m \in ms : ~(msg[1] = 2 /\ msg[2] = m.key)}

Noted(ms, msg) ==
    {[m EXCEPT !.cut = @ \/ (msg[1] = 2 /\ msg[2] = m.key)] : m \in ms}

\* the expired event carries the name of the key; val and cut are those of the
\* marker (history)
EvExpired(m) == [t |-> "exp", payload |-> m.name, val |-> m.val, cut |-> m.cut]

\* act: the step; p: the process taking it; ev: the message, marker name or reply it
\* is about; out: how the call ended; before: p's data before the step
Step(a, p, ev, out) == [act |-> a, p |-> p, ev |-> ev, out |-> out, before |-> data[p]]

NoStep == [act |-> "init", p |-> "A", ev |-> <<>>, out |-> "", before |-> Empty]

Listeners == {q \in Procs : exists[q] /\ subscribed[q] /\ pubsubOpen[q]}

\* those subscribed to the channel of p's collection
Channel(p) == {q \in Listeners : Name(q) = Name(p)}

Broadcast(ev, to) == [q \in Procs |-> IF q \in to THEN Append(inbox[q], ev) ELSE inbox[q]]

----------------------------------------------------------------------------
(* Initial states. In both, every process has called RedisAPI.connect(),     *)
(* which has resolved (both connections open, expired-key notifications      *)
(* switched on), and the store is empty.                                      *)
(*   Init:     each process has constructed its RedisMap, whose startup sync *)
(*             found no snapshot and whose subscriptions are established.     *)
(*   LifeInit: no RedisMap has been constructed yet.                          *)

StartWith(names, made, calls, held, stored) ==
    /\ name = names
    /\ redisOpen = [p \in Procs |-> TRUE]
    /\ pubsubOpen = [p \in Procs |-> TRUE]
    /\ exists = made
    /\ subscribed = made
    /\ data = held
    /\ cmdq = [p \in Procs |-> <<>>]
    /\ replyq = [p \in Procs |-> <<>>]
    /\ inbox = [p \in Procs |-> <<>>]
    /\ snapshot = stored
    /\ markers = {}
    /\ sent = {}
    /\ feed = [p \in Procs |-> <<>>]
    /\ seen = [p \in Procs |-> {}]
    /\ budget = calls
    /\ last = NoStep

Shared == [p \in Procs |-> NameM]

Start(made, calls, held, stored) ==
    StartWith(Shared, [p \in Procs |-> made], calls, held, stored)

Nothing == [p \in Procs |-> Empty]

Init == Start(TRUE, MaxOps, Nothing, <<>>)

LifeInit == Start(FALSE, MaxLifeOps, Nothing, <<>>)

\* Later in a run: process A holds any map (earlier calls whose writes were rejected,
\* or overwritten by others, leave any map behind) and the store any snapshot, or none
WarmInit ==
    \E d \in Obj, st \in {<<>>} \cup {<<JSONStringify(x)>> : x \in Obj} :
        Start(TRUE, MaxWarmOps, [p \in Procs |-> IF p = "A" THEN d ELSE Empty], st)

----------------------------------------------------------------------------
(* Connection lifecycle: RedisAPI.disconnect() quits both connections; each   *)
(* QUIT completes on its own, after the commands sent before it. The call is  *)
(* paid for by the QUIT that completes first.                                 *)

QuitRedis(p) ==
    /\ redisOpen[p]
    /\ cmdq[p] = <<>>
    /\ pubsubOpen[p] => budget > 0
    /\ budget' = IF pubsubOpen[p] THEN budget - 1 ELSE budget
    /\ redisOpen' = [redisOpen EXCEPT ![p] = FALSE]
    /\ last' = Step("quitRedis", p, <<>>, "")
    /\ UNCHANGED <<name, pubsubOpen, exists, subscribed, data, cmdq, replyq, inbox,
                   snapshot, markers, sent, feed, seen>>

QuitPubsub(p) ==
    /\ pubsubOpen[p]
    /\ redisOpen[p] => budget > 0
    /\ budget' = IF redisOpen[p] THEN budget - 1 ELSE budget
    /\ pubsubOpen' = [pubsubOpen EXCEPT ![p] = FALSE]
    /\ subscribed' = [subscribed EXCEPT ![p] = FALSE]
    /\ inbox' = [inbox EXCEPT ![p] = <<>>]
    /\ last' = Step("quitPubsub", p, <<>>, "")
    /\ UNCHANGED <<name, redisOpen, exists, data, cmdq, replyq, snapshot, markers,
                   sent, feed, seen>>

----------------------------------------------------------------------------
(* RedisAPI.connect(): returns at once when both connections are open, else   *)
(* connects the two and returns { redis, pubsub, disconnect }. It changes     *)
(* nothing but the connections, so the environment may call it at will.       *)

\* what the promise of connect() resolves to
ConnectReturns(wasRedis, wasPubsub) == IF wasPubsub /\ wasRedis THEN "undefined" ELSE "handle"

\* both connections are open already
ConnectAgain(p) ==
    /\ pubsubOpen[p] /\ redisOpen[p]
    /\ last' = Step("connect", p, <<>>, ConnectReturns(redisOpen[p], pubsubOpen[p]))
    /\ UNCHANGED <<name, redisOpen, pubsubOpen, exists, subscribed, data, cmdq, replyq,
                   inbox, snapshot, markers, sent, feed, seen, budget>>

\* Promise.all([redis.connect(), pubsub.connect()]) and configSet resolve. Whether
\* the client then restores the subscriptions of a RedisMap made before the quit is
\* the client library's business: either.
ConnectOpen(p, resub) ==
    /\ ~(pubsubOpen[p] /\ redisOpen[p])
    /\ redisOpen' = [redisOpen EXCEPT ![p] = TRUE]
    /\ pubsubOpen' = [pubsubOpen EXCEPT ![p] = TRUE]
    /\ subscribed' = [subscribed EXCEPT ![p] = @ \/ (resub /\ exists[p])]
    /\ last' = Step("connect", p, <<>>, ConnectReturns(redisOpen[p], pubsubOpen[p]))
    /\ UNCHANGED <<name, exists, data, cmdq, replyq, inbox, snapshot, markers, sent,
                   feed, seen, budget>>

\* one of the two connect() rejects (the store is unreachable, or the client refuses
\* to connect a connection that is open): the call rejects, and each connection that
\* was closed is open or not
ConnectReject(p, r, q) ==
    /\ ~(pubsubOpen[p] /\ redisOpen[p])
    /\ redisOpen' = [redisOpen EXCEPT ![p] = @ \/ r]
    /\ pubsubOpen' = [pubsubOpen EXCEPT ![p] = @ \/ q]
    /\ ~(redisOpen'[p] /\ pubsubOpen'[p])
    /\ last' = Step("connect", p, <<>>, "rejected")
    /\ UNCHANGED <<name, exists, subscribed, data, cmdq, replyq, inbox, snapshot, markers,
                   sent, feed, seen, budget>>

----------------------------------------------------------------------------
(* new RedisMap({connections, sync}) *)

ConstructorThrows(p) == ~(redisOpen[p] \/ pubsubOpen[p])

ConstructThrow(p) ==
    /\ ~exists[p]
    /\ ConstructorThrows(p)
    /\ last' = Step("construct", p, <<>>, "threw")
    /\ UNCHANGED <<name, redisOpen, pubsubOpen, exists, subscribed, data, cmdq, replyq,
                   inbox, snapshot, markers, sent, feed, seen, budget>>

\* the constructor returns; cost is what the call takes of the budget
Construct(p, doSync, cost) ==
    /\ ~exists[p]
    /\ ~ConstructorThrows(p)
    /\ budget >= cost
    /\ budget' = budget - cost
    /\ exists' = [exists EXCEPT ![p] = TRUE]
    /\ data' = [data EXCEPT ![p] = Empty]
    /\ cmdq' = [cmdq EXCEPT ![p] = IF doSync THEN Append(@, CmdGet) ELSE @]
    /\ subscribed' = [subscribed EXCEPT ![p] = pubsubOpen[p]]
    /\ last' = Step("construct", p, <<>>, "ok")
    /\ UNCHANGED <<name, redisOpen, pubsubOpen, replyq, inbox, snapshot, markers,
                   sent, feed, seen>>

ConstructOk(p, doSync) == Construct(p, doSync, 0)

----------------------------------------------------------------------------
(* set / delete / clear / sync: the part that runs before the first await *)

SetCall(p, k, v, e) ==
    /\ exists[p]
    /\ budget > 0
    /\ LET d == Put(data[p], k, v)
       IN  /\ data' = [data EXCEPT ![p] = d]
           /\ cmdq' = [cmdq EXCEPT ![p] =
                  Append(@, CmdMulti(FALSE, JSONStringify(d), MsgSet(k, v),
                                     IF Truthy(e) THEN <<Marker(Name(p), k, v, e)>>
                                                  ELSE <<>>))]
    /\ budget' = budget - 1
    /\ last' = Step("set", p, MsgSet(k, v), "pending")
    /\ UNCHANGED <<name, redisOpen, pubsubOpen, exists, subscribed, replyq, inbox,
                   snapshot, markers, sent, feed, seen>>

DeleteCall(p, k) ==
    /\ exists[p]
    /\ budget > 0
    /\ LET d == Del(data[p], k)
       IN  /\ data' = [data EXCEPT ![p] = d]
           /\ cmdq' = [cmdq EXCEPT ![p] =
                  Append(@, CmdMulti(FALSE, JSONStringify(d), MsgDelete(k), <<>>))]
    /\ budget' = budget - 1
    /\ last' = Step("delete", p, MsgDelete(k), "pending")
    /\ UNCHANGED <<name, redisOpen, pubsubOpen, exists, subscribed, replyq, inbox,
                   snapshot, markers, sent, feed, seen>>

ClearCall(p) ==
    /\ exists[p]
    /\ budget > 0
    /\ cmdq' = [cmdq EXCEPT ![p] = Append(@, CmdMulti(TRUE, {}, MsgClear, <<>>))]
    /\ budget' = budget - 1
    /\ last' = Step("clear", p, MsgClear, "pending")
    /\ UNCHANGED <<name, redisOpen, pubsubOpen, exists, subscribed, data, replyq, inbox,
                   snapshot, markers, sent, feed, seen>>

SyncCall(p) ==
    /\ exists[p]
    /\ budget > 0
    /\ cmdq' = [cmdq EXCEPT ![p] = Append(@, CmdGet)]
    /\ budget' = budget - 1
    /\ last' = Step("sync", p, <<>>, "pending")
    /\ UNCHANGED <<name, redisOpen, pubsubOpen, exists, subscribed, data, replyq, inbox,
                   snapshot, markers, sent, feed, seen>>

----------------------------------------------------------------------------
(* The store executes the oldest command of a connection *)

\* How the caller's promise settles: set/delete/clear await pipeline.exec() with no
\* catch; sync() catches the rejection of its GET
Settled(op, ok) == IF ok \/ op = "get" THEN "resolved" ELSE "rejected"

\* Variant: the entries of the call are written over the blob that is there,
\* `{ ...JSON.parse(old), ...this.data }`, keeping the entries it does not name
ExecMultiMerge(p) ==
    /\ redisOpen[p]
    /\ cmdq[p] # <<>>
    /\ Head(cmdq[p]).op = "multi"
    /\ LET c == Head(cmdq[p])
           old == IF snapshot = <<>> THEN {} ELSE snapshot[1]
       IN  /\ snapshot' = IF c.del THEN <<>>
                          ELSE <<c.write \cup {pr \in old : \A w \in c.write : w[1] # pr[1]}>>
           /\ inbox' = Broadcast(EvMsg(c.msg), Channel(p))
           /\ markers' = Noted(StoreSet(markers, c.marker), c.msg)
           /\ sent' = sent \cup {c.msg}
           /\ last' = Step("exec", p, c.msg, Settled("multi", TRUE))
    /\ cmdq' = [cmdq EXCEPT ![p] = Tail(@)]
    /\ UNCHANGED <<name, redisOpen, pubsubOpen, exists, subscribed, data, replyq,
                   feed, seen, budget>>

\* MULTI ... EXEC of set / delete / clear: all of it, atomically
ExecMulti(p) ==
    /\ redisOpen[p]
    /\ cmdq[p] # <<>>
    /\ Head(cmdq[p]).op = "multi"
    /\ LET c == Head(cmdq[p])
       IN  /\ snapshot' = IF c.del THEN <<>> ELSE <<c.write>>
           /\ inbox' = Broadcast(EvMsg(c.msg), Channel(p))
           /\ markers' = Noted(StoreSet(markers, c.marker), c.msg)
           /\ sent' = sent \cup {c.msg}
           /\ last' = Step("exec", p, c.msg, Settled("multi", TRUE))
    /\ cmdq' = [cmdq EXCEPT ![p] = Tail(@)]
    /\ UNCHANGED <<name, redisOpen, pubsubOpen, exists, subscribed, data, replyq,
                   feed, seen, budget>>

\* Variant: the rejection is caught and the optimistic change of a set undone
FailMultiRollback(p) ==
    /\ cmdq[p] # <<>>
    /\ Head(cmdq[p]).op = "multi"
    /\ cmdq' = [cmdq EXCEPT ![p] = Tail(@)]
    /\ data' = [data EXCEPT ![p] =
           IF Head(cmdq[p]).msg[1] = 1 THEN Del(@, Head(cmdq[p]).msg[2]) ELSE @]
    /\ last' = Step("execFailed", p, Head(cmdq[p]).msg, Settled("multi", FALSE))
    /\ UNCHANGED <<name, redisOpen, pubsubOpen, exists, subscribed, replyq, inbox,
                   snapshot, markers, sent, feed, seen, budget>>

\* pipeline.exec() rejects (connection closed, or the store fails): set/delete/clear
\* have no catch, so the rejection reaches the caller; nothing touches this.data
FailMulti(p) ==
    /\ cmdq[p] # <<>>
    /\ Head(cmdq[p]).op = "multi"
    /\ cmdq' = [cmdq EXCEPT ![p] = Tail(@)]
    /\ last' = Step("execFailed", p, Head(cmdq[p]).msg, Settled("multi", FALSE))
    /\ UNCHANGED <<name, redisOpen, pubsubOpen, exists, subscribed, data, replyq, inbox,
                   snapshot, markers, sent, feed, seen, budget>>

\* GET <name> of sync()
ExecGet(p) ==
    /\ redisOpen[p]
    /\ cmdq[p] # <<>>
    /\ Head(cmdq[p]).op = "get"
    /\ cmdq' = [cmdq EXCEPT ![p] = Tail(@)]
    /\ replyq' = [replyq EXCEPT ![p] = Append(@, snapshot)]
    /\ last' = Step("read", p, snapshot, "")
    /\ UNCHANGED <<name, redisOpen, pubsubOpen, exists, subscribed, data, inbox,
                   snapshot, markers, sent, feed, seen, budget>>

\* Variant: the snapshot is merged into the map, `Object.assign(this.data, JSON.parse(data))`
SyncApplyMerge(d, reply) ==
    IF reply # <<>>
    THEN [k \in Keys |-> IF JSONParse(reply[1])[k] # Absent THEN JSONParse(reply[1])[k] ELSE d[k]]
    ELSE d

\* what sync() does with the value it awaited: `if (data) this.data = JSON.parse(data)`
SyncApply(d, reply) == IF reply # <<>> THEN JSONParse(reply[1]) ELSE d

\* the GET reply arrives: sync() resumes after its await
SyncDone(p) ==
    /\ replyq[p] # <<>>
    /\ data' = [data EXCEPT ![p] = SyncApply(@, Head(replyq[p]))]
    /\ replyq' = [replyq EXCEPT ![p] = Tail(@)]
    /\ last' = Step("synced", p, Head(replyq[p]), Settled("get", TRUE))
    /\ UNCHANGED <<name, redisOpen, pubsubOpen, exists, subscribed, cmdq, inbox,
                   snapshot, markers, sent, feed, seen, budget>>

\* Variant: `this.data = JSON.parse(data || "{}")`, a failed read empties the map
SyncCatchResets(d) == Empty

\* what sync() does when the GET rejects: `.catch(() => null)`, then `if (data)` fails
SyncCatch(d) == d

\* the GET rejects
SyncFail(p) ==
    /\ cmdq[p] # <<>>
    /\ Head(cmdq[p]).op = "get"
    /\ cmdq' = [cmdq EXCEPT ![p] = Tail(@)]
    /\ data' = [data EXCEPT ![p] = SyncCatch(@)]
    /\ last' = Step("syncFailed", p, <<>>, Settled("get", FALSE))
    /\ UNCHANGED <<name, redisOpen, pubsubOpen, exists, subscribed, replyq, inbox,
                   snapshot, markers, sent, feed, seen, budget>>

----------------------------------------------------------------------------
(* The store expires a marker: every connection subscribed to                 *)
(* __keyevent@0__:expired is sent the marker's name                           *)

Expire(m) ==
    /\ m \in markers
    /\ markers' = markers \ {m}
    /\ inbox' = Broadcast(EvExpired(m), Listeners)
    /\ last' = [act |-> "expire", p |-> "A", ev |-> m.name, out |-> "", before |-> Empty]
    /\ UNCHANGED <<name, redisOpen, pubsubOpen, exists, subscribed, data, cmdq, replyq,
                   snapshot, sent, feed, seen, budget>>

\* Time: a second passes, once every marker that is due has expired
Tick ==
    /\ markers # {}
    /\ \A m \in markers : m.left > 0
    /\ markers' = {[m EXCEPT !.left = @ - 1, !.age = @ + 1] : m \in markers}
    /\ last' = [act |-> "tick", p |-> "A", ev |-> <<>>, out |-> "", before |-> Empty]
    /\ UNCHANGED <<name, redisOpen, pubsubOpen, exists, subscribed, data, cmdq, replyq,
                   inbox, snapshot, sent, feed, seen, budget>>

\* the store expires a marker whose time to live has run out
ExpireDue(m) == m.left = 0 /\ Expire(m)

(* A process handles the oldest event of its notification connection *)

Handle(n, d, ev) ==
    IF ev.t = "exp" THEN OnExpired(n, d, ev.payload) ELSE OnMessage(d, ev.payload)

Deliver(p) ==
    /\ exists[p]
    /\ inbox[p] # <<>>
    /\ data' = [data EXCEPT ![p] = Handle(Name(p), @, Head(inbox[p]))]
    /\ inbox' = [inbox EXCEPT ![p] = Tail(@)]
    /\ last' = Step(Head(inbox[p]).t, p, Head(inbox[p]).payload, "")
    /\ UNCHANGED <<name, redisOpen, pubsubOpen, exists, subscribed, cmdq, replyq,
                   snapshot, markers, sent, feed, seen, budget>>

----------------------------------------------------------------------------

Next ==
    \/ \E p \in Procs, k \in Keys, v \in Values, e \in Expires : SetCall(p, k, v, e)
    \/ \E p \in Procs, k \in Keys : DeleteCall(p, k)
    \/ \E p \in Procs : ClearCall(p)
    \/ \E p \in Procs : SyncCall(p)
    \/ \E p \in Procs : ExecMulti(p)
    \/ \E p \in Procs : FailMulti(p)
    \/ \E p \in Procs : ExecGet(p)
    \/ \E p \in Procs : SyncDone(p)
    \/ \E p \in Procs : SyncFail(p)
    \/ \E m \in markers : Expire(m)
    \/ \E p \in Procs : Deliver(p)

Spec == Init /\ [][Next]_vars

LifeNext ==
    \/ \E p \in Procs : ConnectAgain(p)
    \/ \E p \in Procs, resub \in BOOLEAN : ConnectOpen(p, resub)
    \/ \E p \in Procs, r \in BOOLEAN, q \in BOOLEAN : ConnectReject(p, r, q)
    \/ \E p \in Procs : QuitRedis(p)
    \/ \E p \in Procs : QuitPubsub(p)
    \/ \E p \in Procs : ConstructThrow(p)
    \/ \E p \in Procs, s \in BOOLEAN : ConstructOk(p, s)
    \/ Next

LifeSpec == LifeInit /\ [][LifeNext]_vars

WarmSpec == WarmInit /\ [][Next]_vars

----------------------------------------------------------------------------
(* One replica and the clock: only process A has a RedisMap, every message it *)
(* handles is the echo of one it published, and a marker expires when its     *)
(* time to live has run out.                                                  *)

SoloInit ==
    StartWith(Shared, [p \in Procs |-> p = "A"], MaxSoloOps, Nothing, <<>>)

SoloNext ==
    \/ \E p \in Procs, k \in Keys, v \in Values, e \in Expires : SetCall(p, k, v, e)
    \/ \E p \in Procs, k \in Keys : DeleteCall(p, k)
    \/ \E p \in Procs : ClearCall(p)
    \/ \E p \in Procs : SyncCall(p)
    \/ \E p \in Procs : ExecMulti(p)
    \/ \E p \in Procs : FailMulti(p)
    \/ \E p \in Procs : ExecGet(p)
    \/ \E p \in Procs : SyncDone(p)
    \/ \E p \in Procs : SyncFail(p)
    \/ \E m \in markers : ExpireDue(m)
    \/ Tick
    \/ \E p \in Procs : Deliver(p)

SoloSpec == SoloInit /\ [][SoloNext]_vars

----------------------------------------------------------------------------
(* Two collections of different names on one store: process A holds a replica *)
(* of the first and makes the calls, process B holds a replica of the second  *)
(* with any entries and listens.                                              *)

IsoInit ==
    \E names \in {f \in [Procs -> Names] : f["A"] # f["B"]}, d \in Obj :
        StartWith(names, [p \in Procs |-> TRUE], MaxIsoOps,
                  [p \in Procs |-> IF p = "B" THEN d ELSE Empty], <<>>)

IsoNext ==
    \/ \E k \in Keys, v \in Values, e \in Expires : SetCall("A", k, v, e)
    \/ ExecMulti("A")
    \/ FailMulti("A")
    \/ \E m \in markers : Expire(m)
    \/ \E p \in Procs : Deliver(p)

IsoSpec == IsoInit /\ [][IsoNext]_vars

----------------------------------------------------------------------------
(* Later in a run, at rest: process A holds any map, the snapshot is that map *)
(* and some of its keys have a marker alive, written by the set that gave the *)
(* key its value. Process B has connected and may construct its RedisMap.     *)

LateMarkers(d) ==
    {{Marker(NameM, k, d[k], "2") : k \in ks} : ks \in SUBSET {k \in Keys : d[k] # Absent}}

Later(holds, calls) ==
    /\ name = Shared
    /\ redisOpen = [p \in Procs |-> TRUE]
    /\ pubsubOpen = [p \in Procs |-> TRUE]
    /\ exists = [p \in Procs |-> p = "A"]
    /\ subscribed = [p \in Procs |-> p = "A"]
    /\ data \in {[p \in Procs |-> IF p = "A" THEN d ELSE Empty] : d \in holds}
    /\ cmdq = [p \in Procs |-> <<>>]
    /\ replyq = [p \in Procs |-> <<>>]
    /\ inbox = [p \in Procs |-> <<>>]
    /\ snapshot = <<JSONStringify(data["A"])>>
    /\ markers \in LateMarkers(data["A"])
    /\ sent = {}
    /\ feed = [p \in Procs |-> <<>>]
    /\ seen = [p \in Procs |-> {}]
    /\ budget = calls
    /\ last = NoStep

LateInit == Later(Obj, MaxLateOps)

LateNext ==
    \/ \E s \in BOOLEAN : Construct("B", s, 1)
    \/ Next

LateSpec == LateInit /\ [][LateNext]_vars

\* The same with the clock and process A alone, which holds the one key "a" and
\* whose marker is alive
LapseInit ==
    /\ Later({Put(Empty, KeyA, v) : v \in Values}, MaxLapseOps)
    /\ markers # {}

LapseSpec == LapseInit /\ [][SoloNext]_vars

----------------------------------------------------------------------------
(* The channel handler on its own: two replicas start empty and each is       *)
(* delivered the same Change Messages, feed[o] being those that origin o      *)
(* published, each replica in an order of its own. The replicas share        *)
(* nothing, so B handles its messages once A has handled all of them.         *)

Texts == {MsgSet(k, v) : k \in Keys, v \in Values} \cup {MsgDelete(k) : k \in Keys} \cup {MsgClear}

Streams == UNION {[1..n -> Texts] : n \in 0..MaxMsgs}

ConvInit ==
    /\ name = Shared
    /\ redisOpen = [p \in Procs |-> TRUE]
    /\ pubsubOpen = [p \in Procs |-> TRUE]
    /\ exists = [p \in Procs |-> TRUE]
    /\ subscribed = [p \in Procs |-> TRUE]
    /\ data = Nothing
    /\ cmdq = [p \in Procs |-> <<>>]
    /\ replyq = [p \in Procs |-> <<>>]
    /\ inbox = [p \in Procs |-> <<>>]
    /\ snapshot = <<>>
    /\ markers = {}
    /\ sent = {}
    /\ feed \in {f \in [Procs -> Streams] : Len(f["A"]) + Len(f["B"]) <= MaxMsgs}
    /\ seen = [p \in Procs |-> {}]
    /\ budget = 0
    /\ last = NoStep

Published == {x \in Procs \X (1..MaxMsgs) : x[2] <= Len(feed[x[1]])}

ConvDeliver(p, o, i) ==
    /\ i \in 1..Len(feed[o])
    /\ <<o, i>> \notin seen[p]
    /\ p = "B" => seen["A"] = Published
    /\ data' = [data EXCEPT ![p] = OnMessage(@, feed[o][i])]
    /\ seen' = [seen EXCEPT ![p] = @ \cup {<<o, i>>}]
    /\ last' = Step("msg", p, feed[o][i], "")
    /\ UNCHANGED <<name, redisOpen, pubsubOpen, exists, subscribed, cmdq, replyq, inbox,
                   snapshot, markers, sent, feed, budget>>

ConvNext == \E p \in Procs, o \in Procs, i \in 1..MaxMsgs : ConvDeliver(p, o, i)

ConvSpec == ConvInit /\ [][ConvNext]_vars

----------------------------------------------------------------------------
(* Properties *)

Acted == last.p
Msg == MsgParse(last.ev)
IsSet(t) == Len(t) = 3 /\ t[1] = 1
IsDelete(t) == Len(t) = 2 /\ t[1] = 2

\* C1. Optimistic local apply: right after set(k, v) has been called on a replica,
\* before the store has answered and before any broadcast is handled, get(k) on that
\* replica returns v.
OptimisticLocalApply ==
    last.act = "set" => Get(data[Acted], Msg.key) = Msg.value

\* C2. Propagation: once a set(k, v) broadcast has been handled by a subscribed
\* replica, its get(k) is v; once a delete(k) broadcast has been handled, its has(k)
\* is false.
Propagation ==
    last.act = "msg" =>
        /\ IsSet(last.ev) => Get(data[Acted], Msg.key) = Msg.value
        /\ IsDelete(last.ev) => ~Has(data[Acted], Msg.key)

\* C3. TTL eviction: once the expired event of the marker that set(k, v, ttl) created
\* for k has been handled by a replica, get(k) is absent and has(k) is false there.
TtlEviction ==
    last.act = "exp" =>
        \A k \in Keys :
            last.ev = MarkerName(Name(Acted), k) =>
                ~Has(data[Acted], k) /\ Get(data[Acted], k) = Null

\* C4. Clear resets fully: a replica that has handled a clear broadcast has no
\* entries, and the clear itself leaves no snapshot in the store (the key is
\* deleted, not rewritten as "{}").
ClearResetsFully ==
    /\ last.act = "msg" /\ last.ev = MsgClear => Entries(data[Acted]) = {}
    /\ last.act = "exec" /\ last.ev = MsgClear => snapshot = <<>>

ClearHandled ==
    /\ last.act = "msg"
    /\ last.ev = MsgClear
    /\ last.before # Empty
    /\ data[Acted] = Empty
    /\ snapshot = <<>>

----------------------------------------------------------------------------
(* Convergence (ConvSpec) *)

Delivered == \A p \in Procs : seen[p] = Published

TextOf(x) == feed[x[1]][x[2]]

\* two messages of different origins; any two messages
Crossed == {c \in Published \X Published : c[1][1] # c[2][1]}
Paired == {c \in Published \X Published : c[1] # c[2]}

SetAndDelete(x, y) ==
    \/ IsSet(x) /\ IsDelete(y) /\ x[2] = y[2]
    \/ IsSet(y) /\ IsDelete(x) /\ x[2] = y[2]

\* what a message makes of key k: nothing, a value, or its absence
Touches(t, k) == t = MsgClear \/ (Len(t) >= 2 /\ t[2] = k)
Leaves(t, k) == IF IsSet(t) THEN t[3] ELSE Absent
Conflict(x, y) == \E k \in Keys : Touches(x, k) /\ Touches(y, k) /\ Leaves(x, k) # Leaves(y, k)

\* C5 as stated. Convergence: two replicas that start empty and have been delivered
\* the same messages hold the same data whatever the order of delivery, provided no
\* set and delete of one key come from different origins.
ConvergenceAsStated ==
    Delivered /\ (\A c \in Crossed : ~SetAndDelete(TextOf(c[1]), TextOf(c[2])))
        => data["A"] = data["B"]

\* C5 as amended. The same, provided no two of the messages, whatever their origins,
\* leave one key in different states: two sets of different values, a set and a
\* delete, or a set and a clear.
Convergence ==
    Delivered /\ (\A c \in Paired : ~Conflict(TextOf(c[1]), TextOf(c[2])))
        => data["A"] = data["B"]

Converged ==
    /\ Delivered
    /\ \A c \in Paired : ~Conflict(TextOf(c[1]), TextOf(c[2]))
    /\ \E c \in Crossed : IsSet(TextOf(c[1])) /\ TextOf(c[1]) = TextOf(c[2])
    /\ Len(feed["A"]) + Len(feed["B"]) = MaxMsgs
    /\ data["A"] = data["B"]
    /\ \A k \in Keys : Has(data["A"], k)

\* C6. Idempotent apply: handling the Change Message just handled once more leaves
\* the replica's data as it is, whatever the data and the message; a delete message
\* for an absent key changes nothing.
IdempotentApply ==
    last.act = "msg" =>
        /\ OnMessage(data[Acted], last.ev) = data[Acted]
        /\ IsDelete(last.ev) /\ ~Has(last.before, Msg.key) => data[Acted] = last.before

\* a replica that holds another key has handled the same delete a second time
AppliedTwice ==
    /\ last.act = "msg"
    /\ IsDelete(last.ev)
    /\ Cardinality({x \in seen[Acted] : TextOf(x) = last.ev}) = 2
    /\ ~Has(last.before, Msg.key)
    /\ data[Acted] = last.before
    /\ data[Acted] # Empty

----------------------------------------------------------------------------
(* sync and failures *)

\* C7. sync(): when the GET found a snapshot, the data of the replica after sync()
\* is exactly that snapshot (no merge, local keys that are not in it are gone); when
\* it found none, the data is unchanged. No step of sync() writes to the store,
\* creates or removes a marker, or publishes.
SyncOverwrites ==
    [][\A p \in Procs :
          /\ SyncDone(p) =>
                IF Head(replyq[p]) # <<>>
                THEN JSONStringify(data'[p]) = Head(replyq[p])[1]
                ELSE data'[p] = data[p]
          /\ SyncCall(p) \/ ExecGet(p) \/ SyncDone(p) \/ SyncFail(p) =>
                UNCHANGED <<snapshot, markers, sent, inbox>>]_vars

SyncDroppedKey ==
    /\ last.act = "synced"
    /\ last.ev # <<>>
    /\ data[Acted] = JSONParse(last.ev[1])
    /\ \E k \in Keys : Has(last.before, k) /\ ~Has(data[Acted], k)
    /\ \E k \in Keys : Has(data[Acted], k)

\* C8. Write failure without rollback: when the pipeline of a set or delete fails,
\* the call rejects and the replica's data is left as it was: the key still maps to
\* the value after a failed set, and is still absent after a failed delete.
WriteFailureKeepsMutation ==
    last.act = "execFailed" =>
        /\ last.out = "rejected"
        /\ data[Acted] = last.before
        /\ IsSet(last.ev) /\ last.before[Msg.key] = Msg.value => data[Acted][Msg.key] = Msg.value
        /\ IsDelete(last.ev) /\ ~Has(last.before, Msg.key) => ~Has(data[Acted], Msg.key)

FailedSetKept ==
    /\ last.act = "execFailed"
    /\ last.out = "rejected"
    /\ last.ev = MsgSet(KeyA, "1")
    /\ data[Acted][KeyA] = "1"
    /\ snapshot = <<>>
    /\ sent = {}

\* C9. Read failure swallowed: when the GET of sync() fails, sync() resolves and the
\* replica's data is what it was before.
ReadFailureSwallowed ==
    last.act = "syncFailed" => last.out = "resolved" /\ data[Acted] = last.before

FailedSyncKept ==
    /\ last.act = "syncFailed"
    /\ last.out = "resolved"
    /\ data[Acted] # Empty

----------------------------------------------------------------------------
(* Construction (LifeSpec) *)

\* C10. Connection precondition: the constructor returns a RedisMap only when both
\* the command connection and the notification connection are open; otherwise it
\* throws.
ConnectionPrecondition ==
    last.act = "construct" =>
        (last.out = "ok" <=> redisOpen[Acted] /\ pubsubOpen[Acted])

\* C11. Connection handle: every call of RedisAPI.connect() that completes returns
\* the handle { redis, pubsub, disconnect }, a call made while both connections are
\* already open included.
ConnectionHandle ==
    last.act = "connect" /\ last.out # "rejected" => last.out = "handle"

----------------------------------------------------------------------------
(* The snapshot *)

Last(s) == s[Len(s)]

\* C12. Snapshot is a full rewrite: the blob that a set(k, v) or delete(k) of process
\* p sends is the whole of p's data as it is right after the optimistic change, and the
\* blob in the store right after the call has succeeded is exactly that: not an update
\* of one key, not a merge with the blob that was there.
SnapshotFullRewrite ==
    [][\A p \in Procs :
          /\ \A k \in Keys, v \in Values, e \in Expires :
                SetCall(p, k, v, e) =>
                    /\ data'[p] = Put(data[p], k, v)
                    /\ Last(cmdq'[p]).write = JSONStringify(data'[p])
          /\ \A k \in Keys :
                DeleteCall(p, k) =>
                    /\ data'[p] = Del(data[p], k)
                    /\ Last(cmdq'[p]).write = JSONStringify(data'[p])
          /\ ExecMulti(p) /\ ~Head(cmdq[p]).del =>
                snapshot' = <<Head(cmdq[p]).write>>]_vars

\* a set has succeeded and the blob is the two entries that the replica holds
SnapshotRewritten ==
    /\ last.act = "exec"
    /\ IsSet(last.ev)
    /\ snapshot = <<JSONStringify(data[Acted])>>
    /\ Cardinality(snapshot[1]) = Cardinality(Keys)

\* no call in progress, no event on its way, no marker alive
Quiescent ==
    /\ \A p \in Procs : cmdq[p] = <<>> /\ replyq[p] = <<>> /\ inbox[p] = <<>>
    /\ markers = {}

\* the snapshot as a map, no snapshot being the empty map
Stored == IF snapshot = <<>> THEN Empty ELSE JSONParse(snapshot[1])

\* every call made so far was a set, delete or clear that the store executed, no
\* two of them alike
AllWritten == MaxOps - budget = Cardinality(sent)

\* C13. Quiescent agreement: when no operation is in progress, no Change Message is
\* in flight and no marker is pending, the data of every subscribed replica equals
\* the persisted snapshot (no snapshot counting as the empty map). Stated for the
\* runs in which no call was rejected, a rejected write being known to leave the
\* replica ahead of the store (C8).
QuiescentAgreement ==
    Quiescent /\ AllWritten => \A p \in Listeners : data[p] = Stored

----------------------------------------------------------------------------
(* Expiration *)

\* process p handles an expired event, that of the marker of key k of its collection
HandlesExpired(p) == Deliver(p) /\ Head(inbox[p]).t = "exp"
ExpiredKey(p, k) == Head(inbox[p]).payload = MarkerName(Name(p), k)

\* handling an expired event changes nothing outside the data of the replica
ExpirationFrame ==
    [][\A p \in Procs :
          HandlesExpired(p) =>
              /\ UNCHANGED <<snapshot, markers, sent, cmdq, replyq>>
              /\ \A q \in Procs \ {p} : data'[q] = data[q] /\ inbox'[q] = inbox[q]]_vars

\* C14. Expiration eviction is local-only: handling the expired event of the marker
\* of key k removes k from the data of the replica and changes nothing else: nothing
\* is published, the snapshot is neither written nor deleted, no marker is created
\* or removed, and every other key of the replica is as it was.
ExpirationLocalOnly ==
    [][\A p \in Procs :
          HandlesExpired(p) =>
              /\ \A k \in Keys : ExpiredKey(p, k) => data'[p] = Del(data[p], k)
              /\ UNCHANGED <<snapshot, markers, sent, cmdq, replyq>>
              /\ \A q \in Procs \ {p} : data'[q] = data[q] /\ inbox'[q] = inbox[q]]_vars

\* C17. Marker name round-trip: for every collection name n and key k, the expired
\* handler of a replica of n takes the marker name rmap-<n>-ex=<k> for one of its own
\* and recovers from it exactly k.
MarkerRoundTrip ==
    last.act = "exp" =>
        \A k \in Keys :
            last.ev = MarkerName(Name(Acted), k) =>
                /\ StartsWith(last.ev, MarkerPrefix(Name(Acted)))
                /\ SplitEq1(last.ev) = k

\* C15. Expiration keyed on the marker, not the value: when set(k, v1, ttl) created a
\* marker and k was then overwritten by a set(k, v2) without TTL before the marker
\* expired, the marker still fires, and a replica that holds v2 under k and handles
\* the expired event evicts k.
ExpirationKeyedOnMarker ==
    [][\A p \in Procs, k \in Keys :
          /\ HandlesExpired(p)
          /\ ExpiredKey(p, k)
          /\ Has(data[p], k)
          /\ data[p][k] # Head(inbox[p]).val
          /\ \A m \in markers : m.key # k
          => ~Has(data'[p], k)]_vars

\* C16. TTL restart: there is at most one marker per collection and key; a
\* set(k, v, ttl2) executed while the marker of k is alive overwrites it and restarts
\* the countdown at ttl2; the marker expires when ttl2 has passed since that set, not
\* when the TTL of the first set would have lapsed, and its expiry leaves no marker of
\* k behind and sends each listener one expired event.
TtlRestart ==
    [][/\ \A m1 \in markers', m2 \in markers' : m1.key = m2.key => m1 = m2
       /\ \A p \in Procs :
             ExecMulti(p) /\ Head(cmdq[p]).marker # <<>> =>
                 LET mk == Head(cmdq[p]).marker[1]
                 IN  \E m \in markers' :
                        m.key = mk.key /\ m.val = mk.val /\ m.left = mk.ttl /\ m.age = 0
       /\ \A m \in markers :
             ExpireDue(m) =>
                 /\ m.age = m.ttl
                 /\ \A x \in markers' : x.key # m.key
                 /\ \A q \in Listeners : Len(inbox'[q]) = Len(inbox[q]) + 1]_vars

\* the marker of a key was overwritten when it had a second left; that second has
\* passed, the marker has a second left and the replica still holds the key
Restarted ==
    \E m \in markers :
        /\ m.over = 1
        /\ m.age = 1
        /\ m.left = 1
        /\ Has(data["A"], m.key)
        /\ inbox["A"] = <<>>

\* C18. Cross-collection isolation of expirations: with two collections of different
\* names on one store, the expiry of a marker that a set on the first collection
\* (that of A) created removes no entry from a replica of the second (that of B).
CollectionIsolation ==
    /\ last.act = "exp"
    /\ Name(Acted) # Name("A")
    /\ \E k \in Keys : last.ev = MarkerName(Name("A"), k)
    => data[Acted] = last.before

----------------------------------------------------------------------------
(* Concurrent writers *)

Pending(p) == {inbox[p][i] : i \in 1..Len(inbox[p])}

\* C19. No lost keys in the snapshot: once a set(k1, v) has completed, k1 stays in
\* the snapshot until k1 is deleted, the collection is cleared or k1 expires. In
\* particular: no delete or clear has been published, the snapshot holds k1 |-> v,
\* the broadcast of that set is still on its way to process p and no expired event
\* is; then a set or delete of another key by p, when the store executes it, leaves
\* k1 in the snapshot.
NoLostKeys ==
    [][\A p \in Procs, k1 \in Keys :
          /\ ExecMulti(p)
          /\ ~Head(cmdq[p]).del
          /\ Head(cmdq[p]).msg[2] # k1
          /\ \A t \in sent : IsSet(t)
          /\ \A ev \in Pending(p) : ev.t = "msg"
          /\ snapshot # <<>>
          /\ \E pr \in snapshot[1] : pr[1] = k1 /\ EvMsg(MsgSet(k1, pr[2])) \in Pending(p)
          => \E pr \in snapshot'[1] : pr[1] = k1]_vars

\* the Change Messages about key k on their way to p, by position, and the latest
EchoesOn(p, k) ==
    {i \in 1..Len(inbox[p]) : inbox[p][i].t = "msg" /\ Touches(inbox[p][i].payload, k)}

LatestOn(p, k) ==
    inbox[p][CHOOSE i \in EchoesOn(p, k) : \A j \in EchoesOn(p, k) : j <= i].payload

\* C20. Read-your-own-writes under echo (one process, so that every message is an
\* echo of its own): all calls have returned and the latest of them about k still has
\* its echo on the way; if that call was delete(k) and has(k) is false, has(k) is
\* false after the process has handled its next message; if it was set(k, v2) and
\* the data holds v2 under k, so it does afterwards. The echo of an earlier call
\* never makes an older state visible again.
ReadYourWrites ==
    [][\A k \in Keys :
          /\ Deliver("A")
          /\ Head(inbox["A"]).t = "msg"
          /\ cmdq["A"] = <<>>
          /\ EchoesOn("A", k) # {}
          => /\ IsDelete(LatestOn("A", k)) /\ ~Has(data["A"], k) => ~Has(data'["A"], k)
             /\ IsSet(LatestOn("A", k)) /\ data["A"][k] = LatestOn("A", k)[3]
                    => data'["A"][k] = LatestOn("A", k)[3]]_vars

----------------------------------------------------------------------------
(* Later in a run (LateSpec) *)

\* C21. Cleared data stays cleared in the store: after clear() has returned, no key
\* that the collection held before appears in the snapshot again unless a new set
\* of that key is issued. In particular: two calls have been made, a clear, which the
\* store has executed and whose broadcast process p has not handled yet, and a
\* set(k2, v) of p; when the store executes the set, the snapshot holds k2 and
\* nothing else.
ClearedStaysCleared ==
    [][\A p \in Procs :
          /\ ExecMulti(p)
          /\ IsSet(Head(cmdq[p]).msg)
          /\ MaxLateOps - budget = 2
          /\ sent = {MsgClear}
          /\ snapshot = <<>>
          /\ EvMsg(MsgClear) \in Pending(p)
          => \A pr \in snapshot'[1] : pr[1] = Head(cmdq[p]).msg[2]]_vars

\* C22. Expired keys are not resurrected: once key k has been evicted from the
\* replicas by the expiry of its marker, no later sync() of a replica and no startup
\* hydration of a new one makes k present again, unless a set of k was issued since.
\* Here the snapshot held one key and its marker; no marker is left, no event is on
\* its way and k is in no replica; the one call made is a sync() or a constructor,
\* whose GET the store has just answered: what sync() assigns to the replica from
\* that answer does not hold k.
ExpiredNotResurrected ==
    /\ last.act = "read"
    /\ MaxLateOps - budget = 1
    /\ sent = {}
    /\ markers = {}
    /\ \A p \in Procs : inbox[p] = <<>>
    /\ snapshot # <<>>
    /\ Cardinality(snapshot[1]) = 1
    => \A k \in Keys :
          (\A p \in Procs : exists[p] => ~Has(data[p], k))
          => ~Has(SyncApply(data[Acted], last.ev), k)

\* C23. Startup hydration does not lose changes: the sync that the constructor
\* starts and does not await never discards a change applied to the replica between
\* construction and its completion. Process B has constructed its RedisMap and at
\* most one other call has been made; when a sync of B completes, every entry that a
\* set of B or a Change Message had put in B's data since the constructor emptied it
\* is still there.
HydrationKeepsChanges ==
    /\ last.act = "synced"
    /\ Acted = "B"
    /\ MaxLateOps - budget <= 2
    => \A k \in Keys : Has(last.before, k) => data["B"][k] = last.before[k]

----------------------------------------------------------------------------
(* A key set with a TTL, then deleted and set again (LapseSpec) *)

\* the countdowns of the store
Countdowns(ms) == {<<m.name, m.val, m.left, m.age>> : m \in ms}

\* process p is about to handle the expired event of the marker of k, a marker
\* that outlived a delete of k; p holds k with the value of a set that was
\* executed, nothing else is under way for p and k has no marker any more
EvictsAfterDelete(p, k) ==
    /\ exists[p]
    /\ inbox[p] # <<>>
    /\ Head(inbox[p]).t = "exp"
    /\ Head(inbox[p]).cut
    /\ ExpiredKey(p, k)
    /\ Tail(inbox[p]) = <<>>
    /\ cmdq[p] = <<>>
    /\ \E v \in Values : data[p][k] = v /\ MsgSet(k, v) \in sent
    /\ \A m \in markers : m.key # k

====
